---- MODULE Spec2Model ----
(***************************************************************************)
(* A model of the semantic_memory knowledge graph:                         *)
(*   core/entity.py        Entity (merge_observation, matches)             *)
(*   core/relationship.py  Relationship (merge_observation, is_spatial)    *)
(*   graph/semantic_graph.py  SemanticGraph (stores, indices, queries)     *)
(* Python objects are modelled by value; where two containers alias one    *)
(* object (the networkx edge attribute and _relationship_index) the action *)
(* that mutates the object updates every container that holds it.          *)
(***************************************************************************)
EXTENDS Integers, Sequences, FiniteSets, TLC

VARIABLES entity_index, entity_order, entities_by_type, entities_by_name,
          relationship_index, graph, now, result, callers

vars == <<entity_index, entity_order, entities_by_type, entities_by_name,
          relationship_index, graph, now, result, callers>>

\* ------------------------------------------------------------------ bounds
\* entity ids the callers of the entity store draw from are 1..MaxEntityId
MaxEntityId == 2
\* the entity-store specification makes at most MaxCalls calls
MaxCalls == 3
\* the relationship-store specification makes at most MaxRelCalls
\* add_relationship calls
MaxRelCalls == 4
\* the query specification adds at most MaxEdges relationships
MaxEdges == 2
\* the largest max_hops a query is asked for
MaxHops == 3
\* the confidence grid of the merge specification is 0/Grid .. Grid/Grid
Grid == 3
\* the merge specification merges at most MaxMerges observations
MaxMerges == 2
\* number of same-name observations of the collapse scenario
MaxSame == 3
\* the name specification makes at most MaxNameCalls add_entity calls
MaxNameCalls == 2
\* the confidence specification makes at most MaxConfCalls calls
MaxConfCalls == 4
\* the clock of the timestamp specification runs from 0 to MaxTime
MaxTime == 2
\* the timestamp specification makes at most MaxTimedCalls add_entity calls
MaxTimedCalls == 2

\* ------------------------------------------------------------ Python values
None == "<None>"

\* None where an id (a UUID, never falsy) is expected
NoId == 0

\* str.lower() on the characters the names are built from
LowerChar(c) ==
  CASE c = "A" -> "a"
    [] c = "B" -> "b"
    [] c = "C" -> "c"
    [] OTHER -> c

lower(s) == [i \in DOMAIN s |-> LowerChar(s[i])]

\* exact rationals <<numerator, denominator>>, denominator > 0, in lowest terms
RECURSIVE Gcd(_, _)
Gcd(a, b) == IF b = 0 THEN a ELSE Gcd(b, a % b)

Abs(n) == IF n < 0 THEN -n ELSE n

Rat(n, d) ==
  LET g == Gcd(Abs(n), d) IN IF n = 0 THEN <<0, 1>> ELSE <<n \div g, d \div g>>

RatAdd(p, q) == Rat(p[1] * q[2] + q[1] * p[2], p[2] * q[2])
RatSub(p, q) == Rat(p[1] * q[2] - q[1] * p[2], p[2] * q[2])
RatMul(p, q) == Rat(p[1] * q[1], p[2] * q[2])
RatLess(p, q) == p[1] * q[2] < q[1] * p[2]
RatLeq(p, q) == p[1] * q[2] <= q[1] * p[2]
RatMin(p, q) == IF RatLeq(p, q) THEN p ELSE q
One == <<1, 1>>
Zero == <<0, 1>>
Half == <<1, 2>>

\* the default merge weight 0.3 of both merge_observation methods
DefaultWeight == <<3, 10>>

\* ------------------------------------------------------------------ Entity
EntityType ==
  {"object", "space", "landmark", "person", "material", "equipment",
   "container", "surface", "unknown"}

\* Entity(...): the fields a caller sets; the rest take the class defaults
\* (observation_count 1, no tags, aliases, embedding, devices or properties)
Entity(id, entity_type, name, confidence) ==
  [id |-> id, entity_type |-> entity_type, name |-> name,
   category |-> None, function |-> None,
   tags |-> {}, aliases |-> <<>>, embedding |-> <<>>,
   first_observed |-> now, last_observed |-> now,
   observation_count |-> 1, source_devices |-> {},
   confidence |-> confidence, properties |-> <<>>]

\* a slip: keys already present keep their old value
DictUpdateKeepOld(a, b) ==
  [k \in DOMAIN a \cup DOMAIN b |-> IF k \in DOMAIN a THEN a[k] ELSE b[k]]

\* dict.update
DictUpdate(a, b) ==
  [k \in DOMAIN a \cup DOMAIN b |-> IF k \in DOMAIN b THEN b[k] ELSE a[k]]

\* a slip: the weight applied to the stored confidence instead of the new one
BlendConfidenceSwapped(c0, c1, weight) ==
  RatAdd(RatMul(weight, c0), RatMul(RatSub(One, weight), c1))

\* a slip: the weighted new confidence is added to the old one
BlendConfidenceAdded(c0, c1, weight) ==
  RatAdd(c0, RatMul(weight, c1))

\* the weighted average of entity.py:96
BlendConfidence(c0, c1, weight) ==
  RatAdd(RatMul(RatSub(One, weight), c0), RatMul(weight, c1))

\* Entity.merge_observation(self, other, weight): the new value of self
merge_observation(self, other, weight) ==
  LET conf == BlendConfidence(self.confidence, other.confidence, weight)
      moreConfident == RatLess(conf, other.confidence)
  IN [self EXCEPT
        !.last_observed = now,
        !.observation_count = self.observation_count + 1,
        !.tags = self.tags \cup other.tags,
        !.aliases = self.aliases \o other.aliases,
        !.confidence = conf,
        !.source_devices = self.source_devices \cup other.source_devices,
        !.properties = DictUpdate(self.properties, other.properties),
        !.category = IF moreConfident /\ other.category \notin {None, ""}
                     THEN other.category ELSE self.category,
        !.function = IF moreConfident /\ other.function \notin {None, ""}
                     THEN other.function ELSE self.function]

Range(s) == {s[i] : i \in DOMAIN s}

RECURSIVE SumSeq(_)
SumSeq(s) == IF s = <<>> THEN 0 ELSE s[1] + SumSeq(Tail(s))

Dot(u, v) == SumSeq([i \in DOMAIN u |-> u[i] * v[i]])

\* Entity._cosine_similarity(vec1, vec2) > threshold, decided exactly:
\* the similarity is 0.0 for unequal lengths or a zero norm, else
\* dot / (norm1 * norm2); threshold = <<tn, td>> is non-negative
CosineAbove(vec1, vec2, threshold) ==
  IF Len(vec1) # Len(vec2) THEN RatLess(threshold, Zero)
  ELSE LET d  == Dot(vec1, vec2)
           n1 == Dot(vec1, vec1)
           n2 == Dot(vec2, vec2)
       IN IF n1 = 0 \/ n2 = 0 THEN RatLess(threshold, Zero)
          ELSE /\ d > 0
               /\ d * d * threshold[2] * threshold[2]
                    > threshold[1] * threshold[1] * n1 * n2

\* a slip: a tag overlap of one half counts as a match
matches_from_half(self, other, threshold) ==
  IF /\ self.entity_type # other.entity_type
     /\ self.entity_type # "unknown"
     /\ other.entity_type # "unknown"
  THEN FALSE
  ELSE IF lower(self.name) = lower(other.name) THEN TRUE
  ELSE IF ({lower(self.name)} \cup {lower(a) : a \in Range(self.aliases)})
            \cap ({lower(other.name)} \cup {lower(a) : a \in Range(other.aliases)})
            # {}
       THEN TRUE
  ELSE IF /\ self.embedding # <<>>
          /\ other.embedding # <<>>
          /\ CosineAbove(self.embedding, other.embedding, threshold)
       THEN TRUE
  ELSE /\ self.tags # {}
       /\ other.tags # {}
       /\ 2 * Cardinality(self.tags \cap other.tags)
            >= Cardinality(self.tags \cup other.tags)

\* Entity.matches(self, other, threshold)
matches(self, other, threshold) ==
  IF /\ self.entity_type # other.entity_type
     /\ self.entity_type # "unknown"
     /\ other.entity_type # "unknown"
  THEN FALSE
  ELSE IF lower(self.name) = lower(other.name) THEN TRUE
  ELSE IF ({lower(self.name)} \cup {lower(a) : a \in Range(self.aliases)})
            \cap ({lower(other.name)} \cup {lower(a) : a \in Range(other.aliases)})
            # {}
       THEN TRUE
  ELSE IF /\ self.embedding # <<>>
          /\ other.embedding # <<>>
          /\ CosineAbove(self.embedding, other.embedding, threshold)
       THEN TRUE
  ELSE IF /\ self.tags # {}
          /\ other.tags # {}
          /\ 2 * Cardinality(self.tags \cap other.tags)
               > Cardinality(self.tags \cup other.tags)
       THEN TRUE
  ELSE FALSE

\* the default threshold 0.7 of Entity.matches
DefaultThreshold == <<7, 10>>

\* ------------------------------------------------------------ Relationship
RelationType ==
  {"on", "in", "near", "next_to", "above", "below", "left_of", "right_of",
   "in_front_of", "behind", "attached_to",
   "part_of", "used_with", "operates", "produces", "consumes",
   "is_a", "instance_of",
   "owned_by", "assigned_to", "stored_in",
   "before", "after", "replaces",
   "related_to"}

\* Relationship(...): the fields a caller sets; the rest take the defaults
Relationship(id, relation_type, source_id, target_id, confidence) ==
  [id |-> id, relation_type |-> relation_type,
   source_id |-> source_id, target_id |-> target_id,
   spatial |-> None,
   first_observed |-> now, last_observed |-> now,
   observation_count |-> 1, source_devices |-> {},
   confidence |-> confidence, is_bidirectional |-> FALSE,
   properties |-> <<>>]

\* a slip: the weight is added as it is
AccumulateConfidenceLinear(c, weight) ==
  RatMin(One, RatAdd(c, weight))

\* a slip: the weight scales the confidence instead of its complement
AccumulateConfidenceScaled(c, weight) ==
  RatMin(One, RatAdd(c, RatMul(weight, c)))

\* the confidence line of Relationship.merge_observation:
\* min(1.0, confidence + weight * (1 - confidence))
AccumulateConfidence(c, weight) ==
  RatMin(One, RatAdd(c, RatMul(weight, RatSub(One, c))))

\* Relationship.merge_observation(self, weight): the new value of self
rel_merge_observation(self, weight) ==
  [self EXCEPT
     !.last_observed = now,
     !.observation_count = self.observation_count + 1,
     !.confidence = AccumulateConfidence(self.confidence, weight)]

\* the set literal of Relationship.is_spatial
spatial_types ==
  {"on", "in", "near", "next_to", "above", "below", "left_of", "right_of",
   "in_front_of", "behind", "attached_to"}

\* Relationship.is_spatial(self)
is_spatial(self) == self.relation_type \in spatial_types

\* ----------------------------------------------------------- SemanticGraph
\* SemanticGraph.__init__: the empty graph.  A graph value g holds
\*   entity_index        dict id -> Entity (a function), its insertion order
\*                       in entity_order
\*   entities_by_type    dict type -> set of ids
\*   entities_by_name    dict lower-cased name -> set of ids
\*   relationship_index  dict id -> Relationship
\*   graph               the networkx MultiDiGraph: its node set and its
\*                       edges [u, v, key, relationship] in insertion order
EmptyGraph ==
  [entity_index |-> <<>>, entity_order |-> <<>>,
   entities_by_type |-> <<>>, entities_by_name |-> <<>>,
   relationship_index |-> <<>>,
   graph |-> [nodes |-> {}, edges |-> <<>>]]

\* no add_entity call is in progress between two steps
NoCallers == <<>>

\* the graph value held by the variables
Self ==
  [entity_index |-> entity_index, entity_order |-> entity_order,
   entities_by_type |-> entities_by_type, entities_by_name |-> entities_by_name,
   relationship_index |-> relationship_index, graph |-> graph]

\* the variables take the graph value g
Becomes(g) ==
  /\ entity_index' = g.entity_index
  /\ entity_order' = g.entity_order
  /\ entities_by_type' = g.entities_by_type
  /\ entities_by_name' = g.entities_by_name
  /\ relationship_index' = g.relationship_index
  /\ graph' = g.graph

\* d[k].add(v), creating d[k] = set() first when k is no key of d
DictSetAdd(d, k, v) ==
  [x \in DOMAIN d \cup {k} |->
     IF x = k THEN (IF k \in DOMAIN d THEN d[k] ELSE {}) \cup {v} ELSE d[x]]

\* d[k] = v
DictPut(d, k, v) == [x \in DOMAIN d \cup {k} |-> IF x = k THEN v ELSE d[x]]

\* SemanticGraph._update_entity_indices(entity)
_update_entity_indices(g, entity) ==
  [g EXCEPT
     !.entities_by_type = DictSetAdd(@, entity.entity_type, entity.id),
     !.entities_by_name = DictSetAdd(@, lower(entity.name), entity.id)]

\* SemanticGraph.get_entities_by_type(entity_type), as a set of records
get_entities_by_type(g, entity_type) ==
  IF entity_type \in DOMAIN g.entities_by_type
  THEN {g.entity_index[eid] : eid \in g.entities_by_type[entity_type]}
  ELSE {}

\* a slip: the name index read with the name as given, not lower-cased
ExactNameIdsAsGiven(g, name) ==
  IF name \in DOMAIN g.entities_by_name THEN g.entities_by_name[name] ELSE {}

\* SemanticGraph.get_entities_by_name(name, fuzzy=False): the ids the name
\* index holds for the lower-cased name (the list is built from this set)
ExactNameIds(g, name) ==
  IF lower(name) \in DOMAIN g.entities_by_name
  THEN g.entities_by_name[lower(name)]
  ELSE {}

\* SemanticGraph.get_entities_by_name(name, fuzzy=False), as a set of records
get_entities_by_name(g, name) ==
  {g.entity_index[eid] : eid \in ExactNameIds(g, name)}

\* Python's "a in b" for strings
Substring(a, b) ==
  \E i \in 1..(Len(b) - Len(a) + 1) : SubSeq(b, i, i + Len(a) - 1) = a

\* SemanticGraph.get_entities_by_name(name, fuzzy=True) (lines 124-132):
\* the entities of _entity_index, in dict order, whose lower-cased name or
\* one of whose lower-cased aliases contains the lower-cased query
get_entities_by_name_fuzzy(g, name) ==
  LET name_lower == lower(name)
      Hit(eid) ==
        \/ Substring(name_lower, lower(g.entity_index[eid].name))
        \/ \E alias \in Range(g.entity_index[eid].aliases) :
             Substring(name_lower, lower(alias))
      hits == SelectSeq(g.entity_order, Hit)
  IN [i \in DOMAIN hits |-> g.entity_index[hits[i]]]

\* the first id of the sequence ids that satisfies Test, as a set of at most
\* one id
RECURSIVE FirstWhere(_, _, _)
FirstWhere(ids, g, entity) ==
  IF ids = <<>> THEN {}
  ELSE IF /\ g.entity_index[Head(ids)].entity_type = entity.entity_type
          /\ matches(g.entity_index[Head(ids)], entity, DefaultThreshold)
       THEN {Head(ids)}
       ELSE FirstWhere(Tail(ids), g, entity)

\* a slip: a candidate of the same name is taken without asking matches
_find_matching_entity_by_name(g, entity) ==
  IF ExactNameIds(g, entity.name) # {}
  THEN {{eid} : eid \in ExactNameIds(g, entity.name)}
  ELSE {{}}

\* SemanticGraph._find_matching_entity(entity): the ids it may return, the
\* empty set standing for None.  The candidates come from a Python set, whose
\* iteration order is not determined by the program: any matching candidate
\* may be the first.  The embedding pass walks the dict in insertion order.
_find_matching_entity(g, entity) ==
  LET byName == {eid \in ExactNameIds(g, entity.name) :
                   matches(g.entity_index[eid], entity, DefaultThreshold)}
  IN IF byName # {} THEN {{eid} : eid \in byName}
     ELSE IF entity.embedding # <<>>
          THEN {FirstWhere(g.entity_order, g, entity)}
          ELSE {{}}

\* a slip: an id already stored keeps its first record (dict.setdefault)
InsertEntityKeepFirst(g, entity) ==
  IF entity.id \in DOMAIN g.entity_index THEN g
  ELSE [g EXCEPT
          !.graph.nodes = @ \cup {entity.id},
          !.entity_index = DictPut(@, entity.id, entity),
          !.entity_order = Append(@, entity.id),
          !.entities_by_type = DictSetAdd(@, entity.entity_type, entity.id),
          !.entities_by_name = DictSetAdd(@, lower(entity.name), entity.id)]

\* the insert branch of SemanticGraph.add_entity (lines 50-57)
InsertEntity(g, entity) ==
  _update_entity_indices(
    [g EXCEPT
       !.graph.nodes = @ \cup {entity.id},
       !.entity_index = DictPut(@, entity.id, entity),
       !.entity_order = IF entity.id \in DOMAIN g.entity_index
                        THEN @ ELSE Append(@, entity.id)],
    entity)

\* a slip: the merged record is registered under the incoming id as well
MergeEntityKeepId(g, eid, entity) ==
  LET merged == merge_observation(g.entity_index[eid], entity, DefaultWeight)
  IN _update_entity_indices(
       [g EXCEPT !.entity_index = DictPut([@ EXCEPT ![eid] = merged],
                                          entity.id, merged),
                 !.entity_order = IF entity.id \in DOMAIN g.entity_index
                                  THEN @ ELSE Append(@, entity.id)],
       merged)

\* SemanticGraph.get_entity(entity_id): at most one record, {} for None
get_entity(g, entity_id) ==
  IF entity_id \in DOMAIN g.entity_index
  THEN {g.entity_index[entity_id]} ELSE {}

\* the merge branch of SemanticGraph.add_entity (lines 45-48)
MergeEntity(g, eid, entity) ==
  LET merged == merge_observation(g.entity_index[eid], entity, DefaultWeight)
  IN _update_entity_indices([g EXCEPT !.entity_index[eid] = merged], merged)

\* a slip: the merge branch is missing, every entity is inserted
add_entity_insert_only(g, entity, merge_if_exists, found) ==
  InsertEntity(g, entity)

\* SemanticGraph.add_entity(entity, merge_if_exists) when the lookup gave
\* found (a set of at most one id): the graph after the call
add_entity(g, entity, merge_if_exists, found) ==
  IF merge_if_exists /\ found # {}
  THEN MergeEntity(g, CHOOSE eid \in found : TRUE, entity)
  ELSE InsertEntity(g, entity)

\* a slip: the argument is returned on the merge branch too
add_entity_returns_argument(entity, merge_if_exists, found) == entity.id

\* the id of the entity add_entity returns
add_entity_returns(entity, merge_if_exists, found) ==
  IF merge_if_exists /\ found # {} THEN CHOOSE eid \in found : TRUE ELSE entity.id

\* result records the last call: the operation, its merge_if_exists flag, the
\* id of its argument, whether that id was stored before the call ("new",
\* or "same" / "other" as the stored record equals the argument or not), the
\* id of the record returned, the exception raised, and the number of calls
\* made so far
Seen(index, record) ==
  IF record.id \notin DOMAIN index THEN "new"
  ELSE IF index[record.id] = record THEN "same" ELSE "other"

Returned(op, merge, arg, seen, ret) ==
  [op |-> op, merge |-> merge, arg |-> arg, seen |-> seen, ret |-> ret,
   err |-> None, calls |-> result.calls + 1]

Raised(op, merge, arg, seen, err) ==
  [op |-> op, merge |-> merge, arg |-> arg, seen |-> seen, ret |-> NoId,
   err |-> err, calls |-> result.calls + 1]

\* the action: one call add_entity(entity, merge_if_exists)
AddEntity(entity, merge_if_exists) ==
  \E found \in (IF merge_if_exists THEN _find_matching_entity(Self, entity)
                ELSE {{}}) :
    /\ Becomes(add_entity(Self, entity, merge_if_exists, found))
    /\ result' = Returned("add_entity", merge_if_exists, entity.id,
                          Seen(entity_index, entity),
                          add_entity_returns(entity, merge_if_exists, found))
    /\ UNCHANGED <<now, callers>>

\* ---------------------------------------------------- relationships, edges
\* a set of integers as the ascending sequence
RECURSIVE Ascending(_)
Ascending(S) ==
  IF S = {} THEN <<>>
  ELSE LET m == CHOOSE x \in S : \A y \in S : x <= y
       IN <<m>> \o Ascending(S \ {m})

\* graph.get_edge_data(u, v): the key dict of the pair, in insertion order,
\* as edge positions
EdgePositions(g, u, v) ==
  Ascending({i \in DOMAIN g.graph.edges :
               g.graph.edges[i].u = u /\ g.graph.edges[i].v = v})

\* networkx keeps adjacency as dict-of-dict-of-dict: the edges at a node are
\* listed neighbour by neighbour (in the order the neighbours were first
\* linked), and key by key within a neighbour.  pn is a sequence of
\* <<position, neighbour>> in insertion order.
RECURSIVE GroupByNeighbour(_)
GroupByNeighbour(pn) ==
  IF pn = <<>> THEN <<>>
  ELSE LET n == Head(pn)[2]
           Same(x) == x[2] = n
           Rest(x) == x[2] # n
           same == SelectSeq(pn, Same)
       IN [i \in DOMAIN same |-> same[i][1]] \o GroupByNeighbour(SelectSeq(pn, Rest))

\* graph.out_edges(source_id, data=True), as edge positions
OutEdgePositions(g, source_id) ==
  LET ps == Ascending({i \in DOMAIN g.graph.edges : g.graph.edges[i].u = source_id})
  IN GroupByNeighbour([i \in DOMAIN ps |-> <<ps[i], g.graph.edges[ps[i]].v>>])

\* graph.in_edges(target_id, data=True), as edge positions
InEdgePositions(g, target_id) ==
  LET ps == Ascending({i \in DOMAIN g.graph.edges : g.graph.edges[i].v = target_id})
  IN GroupByNeighbour([i \in DOMAIN ps |-> <<ps[i], g.graph.edges[ps[i]].u>>])

\* the 'relationship' attributes of the edges at the positions ps
RelsAt(g, ps) == [i \in DOMAIN ps |-> g.graph.edges[ps[i]].relationship]

\* list(self._relationship_index.values()): a dict lists its keys in the
\* order of their first insertion, and add_relationship inserts an id into
\* the index for the first time when it appends the first edge with that key
IndexValues(g) ==
  LET firsts == {p \in DOMAIN g.graph.edges :
                   \A q \in 1..(p - 1) : g.graph.edges[q].key # g.graph.edges[p].key}
      ps == Ascending(firsts)
  IN [i \in DOMAIN ps |-> g.relationship_index[g.graph.edges[ps[i]].key]]

\* SemanticGraph.get_relationships(source_id, target_id, relation_type)
get_relationships(g, source_id, target_id, relation_type) ==
  LET relationships ==
        IF source_id # NoId /\ target_id # NoId
          THEN RelsAt(g, EdgePositions(g, source_id, target_id))
        ELSE IF source_id # NoId
          THEN RelsAt(g, OutEdgePositions(g, source_id))
        ELSE IF target_id # NoId
          THEN RelsAt(g, InEdgePositions(g, target_id))
        ELSE IndexValues(g)
      OfType(r) == r.relation_type = relation_type
  IN IF relation_type # None THEN SelectSeq(relationships, OfType)
     ELSE relationships

\* graph.out_edges(n) and graph.in_edges(n) raise NetworkXError for a node n
\* that is not in the graph (nbunch_iter); has_edge does not
get_relationships_raises(g, source_id, target_id) ==
  /\ ~(source_id # NoId /\ target_id # NoId)
  /\ \/ source_id # NoId /\ source_id \notin g.graph.nodes
     \/ source_id = NoId /\ target_id # NoId /\ target_id \notin g.graph.nodes

\* SemanticGraph._find_existing_relationship(rel): the position of the edge
\* holding existing_rels[0], as a set of at most one position
_find_existing_relationship(g, rel) ==
  LET OfType(p) == g.graph.edges[p].relationship.relation_type = rel.relation_type
      ps == SelectSeq(EdgePositions(g, rel.source_id, rel.target_id), OfType)
  IN IF ps = <<>> THEN {} ELSE {Head(ps)}

\* a slip: only the source is verified
add_relationship_raises_source_only(g, rel) ==
  rel.source_id \notin DOMAIN g.entity_index

\* the checks of add_relationship lines 75-78: the ValueError it raises
add_relationship_raises(g, rel) ==
  \/ rel.source_id \notin DOMAIN g.entity_index
  \/ rel.target_id \notin DOMAIN g.entity_index

\* graph.add_edge(u, v, key=key, relationship=relationship): an edge with
\* this (u, v, key) has its attribute replaced, else the edge is appended
add_edge(G, u, v, key, relationship) ==
  LET ps == Ascending({i \in DOMAIN G.edges :
                         /\ G.edges[i].u = u
                         /\ G.edges[i].v = v
                         /\ G.edges[i].key = key})
  IN IF ps # <<>>
     THEN [G EXCEPT !.edges[Head(ps)].relationship = relationship]
     ELSE [G EXCEPT !.edges = Append(@, [u |-> u, v |-> v, key |-> key,
                                         relationship |-> relationship])]

\* the edge at position p and _relationship_index[key] hold one object:
\* the object last inserted under key, which lies on the edge of its own
\* endpoints
SameObject(g, p) ==
  LET e == g.graph.edges[p]
  IN /\ e.key \in DOMAIN g.relationship_index
     /\ g.relationship_index[e.key].source_id = e.u
     /\ g.relationship_index[e.key].target_id = e.v

\* the merge branch of add_relationship (lines 83-85): existing is the
\* object on the edge at position p
MergeRelationship(g, p) ==
  LET e == g.graph.edges[p]
      merged == rel_merge_observation(e.relationship, DefaultWeight)
  IN [g EXCEPT
        !.graph.edges[p].relationship = merged,
        !.relationship_index =
            IF SameObject(g, p) THEN [@ EXCEPT ![e.key] = merged] ELSE @]

\* a slip: the edge is added, the id index is not written
InsertRelationshipEdgeOnly(g, rel) ==
  [g EXCEPT !.graph = add_edge(@, rel.source_id, rel.target_id, rel.id, rel)]

\* the insert branch of add_relationship (lines 87-96)
InsertRelationship(g, rel) ==
  [g EXCEPT
     !.graph = add_edge(@, rel.source_id, rel.target_id, rel.id, rel),
     !.relationship_index = DictPut(@, rel.id, rel)]

\* SemanticGraph.add_relationship(relationship, merge_if_exists), when it
\* does not raise: the graph after the call
add_relationship(g, rel, merge_if_exists) ==
  LET existing == _find_existing_relationship(g, rel)
  IN IF merge_if_exists /\ existing # {}
     THEN MergeRelationship(g, CHOOSE p \in existing : TRUE)
     ELSE InsertRelationship(g, rel)

\* the relationship add_relationship returns
add_relationship_returns(g, rel, merge_if_exists) ==
  LET existing == _find_existing_relationship(g, rel)
      after == add_relationship(g, rel, merge_if_exists)
  IN IF merge_if_exists /\ existing # {}
     THEN after.graph.edges[CHOOSE p \in existing : TRUE].relationship
     ELSE rel

\* the action: one call add_relationship(rel, merge_if_exists)
AddRelationship(rel, merge_if_exists) ==
  IF add_relationship_raises(Self, rel)
  THEN /\ result' = Raised("add_relationship", merge_if_exists, rel.id,
                           Seen(relationship_index, rel), "ValueError")
       /\ UNCHANGED <<entity_index, entity_order, entities_by_type,
                      entities_by_name, relationship_index, graph, now, callers>>
  ELSE /\ Becomes(add_relationship(Self, rel, merge_if_exists))
       /\ result' = Returned("add_relationship", merge_if_exists, rel.id,
                             Seen(relationship_index, rel),
                             add_relationship_returns(Self, rel, merge_if_exists).id)
       /\ UNCHANGED <<now, callers>>

\* ------------------------------------------------------------- the queries
\* the orders in which Python may iterate over the set S
Perms(S) ==
  {f \in [1..Cardinality(S) -> S] :
     \A i, j \in 1..Cardinality(S) : i # j => f[i] # f[j]}

\* a slip: non-spatial relationships contribute too
ContributesAnyKind(g, rel, relation_type) ==
  /\ relation_type = None \/ rel.relation_type = relation_type
  /\ rel.target_id \in DOMAIN g.entity_index

\* query_spatial appends (target, rel) when the type filter lets rel through,
\* rel is spatial and get_entity finds the target
Contributes(g, rel, relation_type) ==
  /\ relation_type = None \/ rel.relation_type = relation_type
  /\ is_spatial(rel)
  /\ rel.target_id \in DOMAIN g.entity_index

ResultPair(g, rel) == <<g.entity_index[rel.target_id], rel>>

\* the "direct relationships" loop of query_spatial (lines 197-203)
DirectResults(g, entity_id, relation_type) ==
  LET Keep(rel) == Contributes(g, rel, relation_type)
      kept == SelectSeq(get_relationships(g, entity_id, NoId, None), Keep)
  IN [i \in DOMAIN kept |-> ResultPair(g, kept[i])]

\* the loop over the relationships of one frontier entity (lines 213-220);
\* st holds visited, next_level and results
RECURSIVE ScanEdges(_, _, _, _)
ScanEdges(g, rels, relation_type, st) ==
  IF rels = <<>> THEN st
  ELSE LET rel == Head(rels)
           after ==
             IF rel.target_id \notin st.visited
             THEN [visited |-> st.visited \cup {rel.target_id},
                   next_level |-> st.next_level \cup {rel.target_id},
                   results |-> IF Contributes(g, rel, relation_type)
                               THEN Append(st.results, ResultPair(g, rel))
                               ELSE st.results]
             ELSE st
       IN ScanEdges(g, Tail(rels), relation_type, after)

\* the loop over current_level (line 212), taken in the given order
RECURSIVE ScanLevel(_, _, _, _)
ScanLevel(g, order, relation_type, st) ==
  IF order = <<>> THEN st
  ELSE ScanLevel(g, Tail(order), relation_type,
                 ScanEdges(g, get_relationships(g, Head(order), NoId, None),
                           relation_type, st))

\* the loop "for _ in range(max_hops - 1)" (lines 210-222): the result lists
\* it can end with, one for each way of iterating over the frontier sets
RECURSIVE Expand(_, _, _, _, _, _)
Expand(g, relation_type, iterations, visited, current_level, results) ==
  IF iterations = 0 THEN {results}
  ELSE UNION
    {LET st == ScanLevel(g, order, relation_type,
                         [visited |-> visited, next_level |-> {},
                          results |-> results])
     IN Expand(g, relation_type, iterations - 1, st.visited, st.next_level,
               st.results) :
       order \in Perms(current_level)}

\* SemanticGraph.query_spatial(entity, relation_type, max_hops) for an entity
\* whose id is a node of the graph: the lists it can return
query_spatial(g, entity_id, relation_type, max_hops) ==
  LET results == DirectResults(g, entity_id, relation_type)
  IN IF max_hops > 1
     THEN Expand(g, relation_type, max_hops - 1, {entity_id}, {entity_id}, results)
     ELSE {results}

\* graph.out_edges(entity.id) raises NetworkXError for an id that is not a
\* node of the graph
query_spatial_raises(g, entity_id) ==
  get_relationships_raises(g, entity_id, NoId)

\* a slip: all the spatial types
default_relation_types_spatial == spatial_types

\* the relation_types find_path uses when it is given None (lines 243-248)
default_relation_types == {"on", "in", "near", "next_to", "attached_to"}

\* the successors of u in nx.subgraph_view(self.graph, filter_edge=edge_filter)
FilteredSuccessors(g, relation_types, u) ==
  {g.graph.edges[i].v : i \in
     {j \in DOMAIN g.graph.edges :
        /\ g.graph.edges[j].u = u
        /\ g.graph.edges[j].relationship.relation_type \in relation_types}}

\* breadth-first levels from the source: levels[d] holds the nodes first
\* reached after d-1 hops
RECURSIVE BfsLevels(_, _, _, _)
BfsLevels(g, relation_types, levels, seen) ==
  LET frontier == levels[Len(levels)]
      next == UNION {FilteredSuccessors(g, relation_types, u) : u \in frontier} \ seen
  IN IF next = {} THEN levels
     ELSE BfsLevels(g, relation_types, Append(levels, next), seen \cup next)

\* the id sequences through the levels that end in node at level d
RECURSIVE LevelPaths(_, _, _, _, _)
LevelPaths(g, relation_types, levels, d, node) ==
  IF d = 1 THEN {<<node>>}
  ELSE UNION
    {{Append(path, node) :
        path \in LevelPaths(g, relation_types, levels, d - 1, m)} :
       m \in {x \in levels[d - 1] :
                node \in FilteredSuccessors(g, relation_types, x)}}

\* nx.shortest_path(filtered_graph, source, target) for nodes of the graph:
\* the paths an unweighted breadth-first search can return (which one of
\* several equally short paths it returns depends on the search order)
shortest_path(g, relation_types, source_id, target_id) ==
  LET levels == BfsLevels(g, relation_types, <<{source_id}>>, {source_id})
      at == {d \in DOMAIN levels : target_id \in levels[d]}
  IN UNION {LevelPaths(g, relation_types, levels, d, target_id) : d \in at}

\* SemanticGraph.find_path(source, target, relation_types) for entities whose
\* ids are nodes of the graph: the values it can return, found = FALSE for
\* None (NetworkXNoPath caught) and the path as the list of entities
find_path(g, source_id, target_id, relation_types) ==
  LET paths == shortest_path(g, relation_types, source_id, target_id)
  IN IF paths = {} THEN {[found |-> FALSE, path |-> <<>>]}
     ELSE {[found |-> TRUE,
            path |-> [i \in DOMAIN path_ids |-> g.entity_index[path_ids[i]]]] :
             path_ids \in paths}

\* nx.shortest_path raises NodeNotFound for a source or target that is not a
\* node of the graph; find_path catches NetworkXNoPath only
find_path_raises(g, source_id, target_id) ==
  source_id \notin g.graph.nodes \/ target_id \notin g.graph.nodes

\* ------------------------------------------------------------- get_context
\* the relationships the first loop of get_context (lines 283-294) acts on:
\* spatial, with a target that get_entity finds
ContextRels(g, entity_id) ==
  LET Keep(rel) == is_spatial(rel) /\ rel.target_id \in DOMAIN g.entity_index
  IN SelectSeq(get_relationships(g, entity_id, NoId, None), Keep)

\* a slip: the first IN relationship wins
ContainerFirst(g, entity_id) ==
  LET IsIn(rel) == rel.relation_type = "in"
      ins == SelectSeq(ContextRels(g, entity_id), IsIn)
  IN IF ins = <<>> THEN {} ELSE {g.entity_index[ins[1].target_id]}

\* context["container"] after the first loop: every IN relationship
\* overwrites it, so the last one stays; {} stands for None
Container(g, entity_id) ==
  LET IsIn(rel) == rel.relation_type = "in"
      ins == SelectSeq(ContextRels(g, entity_id), IsIn)
  IN IF ins = <<>> THEN {} ELSE {g.entity_index[ins[Len(ins)].target_id]}

\* context["nearby"] after the first loop
Nearby(g, entity_id) ==
  LET IsNear(rel) == rel.relation_type = "near"
      nears == SelectSeq(ContextRels(g, entity_id), IsNear)
  IN [i \in DOMAIN nears |-> g.entity_index[nears[i].target_id]]

\* context["contents"] after the second loop (lines 297-301)
Contents(g, entity_id) ==
  LET IsIn(rel) ==
        rel.relation_type = "in" /\ rel.source_id \in DOMAIN g.entity_index
      ins == SelectSeq(get_relationships(g, NoId, entity_id, None), IsIn)
  IN [i \in DOMAIN ins |-> g.entity_index[ins[i].source_id]]

\* SemanticGraph.get_context(entity, radius) for a stored entity: the
\* dictionaries it can return
get_context(g, entity_id, radius) ==
  {[entity |-> g.entity_index[entity_id],
    spatial_neighbors |-> spatial_results,
    container |-> Container(g, entity_id),
    contents |-> Contents(g, entity_id),
    nearby |-> Nearby(g, entity_id)] :
     spatial_results \in query_spatial(g, entity_id, None, radius)}

\* out_edges(entity.id) raises NetworkXError for an id that is not a node
get_context_raises(g, entity_id) ==
  get_relationships_raises(g, entity_id, NoId)

\* ---------------------------------------------------- export and import
\* str(UUID) and UUID(str), as pydantic dumps and validates an id
uuid_str(id) == <<"uuid", id>>
UUID(s) == s[2]

\* datetime.isoformat() and datetime.fromisoformat()
isoformat(t) == <<"iso", t>>
fromisoformat(s) == s[2]

\* a set dumped as a JSON list, in some order
SetAsList(S) == CHOOSE f \in Perms(S) : TRUE

\* Entity.to_dict(): model_dump(mode='json')
to_dict(self) ==
  [self EXCEPT !.id = uuid_str(@),
               !.tags = SetAsList(@),
               !.first_observed = isoformat(@),
               !.last_observed = isoformat(@),
               !.source_devices = SetAsList(@)]

\* Entity.from_dict(data): model_validate(data)
from_dict(data) ==
  [data EXCEPT !.id = UUID(@),
               !.tags = Range(@),
               !.first_observed = fromisoformat(@),
               !.last_observed = fromisoformat(@),
               !.source_devices = Range(@)]

\* Relationship.to_dict(): model_dump(mode='json')
rel_to_dict(self) ==
  [self EXCEPT !.id = uuid_str(@),
               !.source_id = uuid_str(@),
               !.target_id = uuid_str(@),
               !.first_observed = isoformat(@),
               !.last_observed = isoformat(@),
               !.source_devices = SetAsList(@)]

\* Relationship.from_dict(data): model_validate(data)
rel_from_dict(data) ==
  [data EXCEPT !.id = UUID(@),
               !.source_id = UUID(@),
               !.target_id = UUID(@),
               !.first_observed = fromisoformat(@),
               !.last_observed = fromisoformat(@),
               !.source_devices = Range(@)]

\* nx.density(G) of a directed multigraph: 0 without edges or with at most
\* one node, else m / (n * (n - 1))
density(G) ==
  LET n == Cardinality(G.nodes)
      m == Len(G.edges)
  IN IF m = 0 \/ n <= 1 THEN Zero ELSE Rat(m, n * (n - 1))

\* SemanticGraph.stats() evaluates entity_type.value for every key of
\* _entities_by_type (line 355).  The keys are the entity_type fields of
\* the stored entities, which the models keep as plain str values
\* (use_enum_values, entity.py lines 75-76), and a str has no attribute
\* 'value': stats raises AttributeError as soon as the type index has a key
stats_raises(g) == DOMAIN g.entities_by_type # {}

\* the counts of stats(): len(self._entity_index) and
\* len(self._relationship_index) (lines 352-353)
total_entities(g) == Cardinality(DOMAIN g.entity_index)
total_relationships(g) == Cardinality(DOMAIN g.relationship_index)

\* SemanticGraph.stats(), when it does not raise
stats(g) ==
  [total_entities |-> total_entities(g),
   total_relationships |-> total_relationships(g),
   entities_by_type |->
     [t \in DOMAIN g.entities_by_type |-> Cardinality(g.entities_by_type[t])],
   spatial_relationships |->
     Cardinality({k \in DOMAIN g.relationship_index :
                    is_spatial(g.relationship_index[k])}),
   graph_density |-> density(g.graph)]

\* export_to_dict calls stats() for its metadata
export_to_dict_raises(g) == stats_raises(g)

\* SemanticGraph.export_to_dict(), when it does not raise
export_to_dict(g) ==
  [entities |->
     [i \in DOMAIN g.entity_order |-> to_dict(g.entity_index[g.entity_order[i]])],
   relationships |->
     [i \in DOMAIN IndexValues(g) |-> rel_to_dict(IndexValues(g)[i])],
   metadata |-> [exported_at |-> isoformat(now), stats |-> stats(g)]]

\* the loop "for entity_data in data.get('entities', [])" of import_from_dict
RECURSIVE ImportEntities(_, _)
ImportEntities(g, entities) ==
  IF entities = <<>> THEN g
  ELSE ImportEntities(add_entity(g, from_dict(Head(entities)), FALSE, {}),
                      Tail(entities))

\* the loop "for rel_data in data.get('relationships', [])"
RECURSIVE ImportRelationships(_, _)
ImportRelationships(g, relationships) ==
  IF relationships = <<>> THEN g
  ELSE ImportRelationships(add_relationship(g, rel_from_dict(Head(relationships)), FALSE),
                           Tail(relationships))

\* SemanticGraph.import_from_dict(data), when it does not raise
import_from_dict(data) ==
  ImportRelationships(ImportEntities(EmptyGraph, data.entities), data.relationships)

\* add_relationship raises ValueError for an endpoint the data has no
\* entity for
import_from_dict_raises(data) ==
  \E i \in DOMAIN data.relationships :
    add_relationship_raises(ImportEntities(EmptyGraph, data.entities),
                            rel_from_dict(data.relationships[i]))

\* the variables hold the graph value g
Holds(g) ==
  /\ entity_index = g.entity_index
  /\ entity_order = g.entity_order
  /\ entities_by_type = g.entities_by_type
  /\ entities_by_name = g.entities_by_name
  /\ relationship_index = g.relationship_index
  /\ graph = g.graph

\* SemanticGraph(): the state after construction
Init ==
  /\ Holds(EmptyGraph)
  /\ now = 0
  /\ callers = NoCallers
  /\ result = [op |-> "init", merge |-> FALSE, arg |-> NoId, seen |-> "new",
               ret |-> NoId, err |-> None, calls |-> 0]

\* ------------------------------------------------- the entity store (Spec)
\* the entities the callers of the entity store pass: caller-supplied ids,
\* two known types, names that differ in case or in letters
StoreTypes == {"object", "space"}
StoreNames == {<<"A">>, <<"a">>, <<"B">>}
StoreEntities ==
  {Entity(id, t, n, Half) : id \in 1..MaxEntityId, t \in StoreTypes, n \in StoreNames}

Next ==
  /\ result.calls < MaxCalls
  /\ \E entity \in StoreEntities, merge_if_exists \in BOOLEAN :
       AddEntity(entity, merge_if_exists)

Spec == Init /\ [][Next]_vars

\* ------------------------------------- same-name observations (SpecSame)
\* from the empty store, merging-enabled add_entity calls with fresh entities
\* (ids 1, 2, ...) that share the case-insensitive name and the known type of
\* the first one
SameNames == {<<"A">>, <<"a">>, <<"B">>, <<"b">>}
SameTypes == EntityType \ {"unknown"}
SameConfidences == {Zero, Half, One}

AddSame ==
  /\ result.calls < MaxSame
  /\ \E n \in SameNames, t \in SameTypes, c \in SameConfidences :
       /\ \/ result.calls = 0
          \/ /\ 1 \in DOMAIN entity_index
             /\ t = entity_index[1].entity_type
             /\ lower(n) = lower(entity_index[1].name)
       /\ AddEntity(Entity(result.calls + 1, t, n, c), TRUE)

SpecSame == Init /\ [][AddSame]_vars

\* --------------------------------- Entity.merge_observation (SpecMerge)
GridValues == {Rat(i, Grid) : i \in 0..Grid}

\* one call existing.merge_observation(other, weight) on the stored entity 1
MergeObservation(other, weight) ==
  /\ entity_index' = [entity_index EXCEPT ![1] = merge_observation(@, other, weight)]
  /\ result' = [op |-> "merge_observation", merge |-> TRUE,
                arg |-> <<other.confidence, weight>>, seen |-> "new", ret |-> 1,
                err |-> None, calls |-> result.calls + 1]
  /\ UNCHANGED <<entity_order, entities_by_type, entities_by_name,
                 relationship_index, graph, now, callers>>

InitMerge ==
  /\ now = 0
  /\ callers = NoCallers
  /\ result = [op |-> "init", merge |-> FALSE, arg |-> NoId, seen |-> "new",
               ret |-> NoId, err |-> None, calls |-> 0]
  /\ \E c0 \in GridValues :
       Holds(InsertEntity(EmptyGraph, Entity(1, "object", <<"A">>, c0)))

NextMerge ==
  /\ result.calls < MaxMerges
  /\ \E c1 \in GridValues, weight \in GridValues :
       MergeObservation(Entity(2, "object", <<"A">>, c1), weight)

SpecMerge == InitMerge /\ [][NextMerge]_vars

\* --------------------------------------- the relationship store (SpecRel)
\* entity k of the graph specifications: distinct names, so none merges
NodeName(k) == [i \in 1..k |-> "n"]
Node(k) == Entity(k, "object", NodeName(k), Half)

\* entities 1 and 2 are added, in this order; id 3 is never stored.
\* Relationships carry caller-supplied ids, which a caller may use again.
RelNodes == {1, 2}
RelIds == {1, 2}
RelPairs == {<<1, 2>>, <<2, 1>>, <<1, 3>>, <<3, 2>>}
RelTypes == {"on", "part_of"}
RelInputs ==
  {Relationship(id, t, st[1], st[2], Half) :
     id \in RelIds, t \in RelTypes, st \in RelPairs}

AddNextNode(nodes) ==
  \E k \in nodes :
    /\ k \notin DOMAIN entity_index
    /\ \A j \in nodes : j < k => j \in DOMAIN entity_index
    /\ AddEntity(Node(k), TRUE)

NextRel ==
  \/ AddNextNode(RelNodes)
  \/ /\ result.calls - Cardinality(DOMAIN entity_index) < MaxRelCalls
     /\ \E rel \in RelInputs, merge_if_exists \in BOOLEAN :
          AddRelationship(rel, merge_if_exists)

SpecRel == Init /\ [][NextRel]_vars

\* --------------------------------------------- graphs to query (SpecQuery)
\* entities 1, 2, 3 are added in this order; relationships between stored
\* entities are inserted with fresh ids 1, 2, ... and merging disabled, so
\* that self loops, parallel and antiparallel edges all occur
QueryNodes == {1, 2, 3}
QueryTypes == {"on", "in", "above", "part_of"}

AddQueryEdge ==
  /\ Len(graph.edges) < MaxEdges
  /\ \E s \in DOMAIN entity_index, t \in DOMAIN entity_index, rt \in QueryTypes :
       AddRelationship(Relationship(Len(graph.edges) + 1, rt, s, t, Half), FALSE)

NextQuery ==
  \/ AddNextNode(QueryNodes)
  \/ AddQueryEdge

SpecQuery == Init /\ [][NextQuery]_vars

\* ------------------------------------- graphs for get_context (SpecContext)
\* as SpecQuery, with the relation types get_context tells apart
ContextTypes == {"in", "near", "on"}

AddContextEdge ==
  /\ Len(graph.edges) < MaxEdges
  /\ \E s \in DOMAIN entity_index, t \in DOMAIN entity_index, rt \in ContextTypes :
       AddRelationship(Relationship(Len(graph.edges) + 1, rt, s, t, Half), FALSE)

NextContext ==
  \/ AddNextNode(QueryNodes)
  \/ AddContextEdge

SpecContext == Init /\ [][NextContext]_vars

\* ------------------------------------------- names and aliases (SpecNames)
\* entities with fresh ids 1, 2, ..., whose names contain one another or
\* differ in case, with and without aliases, of two known types and the
\* unknown type, added with merging enabled or disabled
NameChoices == {<<"a">>, <<"A", "b">>, <<"A">>}
AliasChoices == {<<>>, << <<"a">> >>, << <<"B", "c">> >>}
NameTypes == {"object", "space", "unknown"}
NameEntities(id) ==
  {[Entity(id, t, n, Half) EXCEPT !.aliases = al] :
     t \in NameTypes, n \in NameChoices, al \in AliasChoices}

AddNamed ==
  /\ result.calls < MaxNameCalls
  /\ \E entity \in NameEntities(result.calls + 1), merge_if_exists \in BOOLEAN :
       AddEntity(entity, merge_if_exists)

SpecNames == Init /\ [][AddNamed]_vars

\* ------------------------------------------------- timestamps (SpecTime)
\* datetime.now() advances between calls
Tick ==
  /\ now < MaxTime
  /\ now' = now + 1
  /\ UNCHANGED <<entity_index, entity_order, entities_by_type,
                 entities_by_name, relationship_index, graph, result,
                 callers>>

\* observations of one object, with fresh ids 1, 2, ...: first_observed is
\* the construction time, last_observed is supplied by the caller
TimedEntities(id) ==
  {[Entity(id, "object", <<"a">>, Half) EXCEPT !.last_observed = t] :
     t \in 0..MaxTime}

AddTimed ==
  /\ result.calls < MaxTimedCalls
  /\ \E entity \in TimedEntities(result.calls + 1), merge_if_exists \in BOOLEAN :
       AddEntity(entity, merge_if_exists)

NextTime == Tick \/ AddTimed

SpecTime == Init /\ [][NextTime]_vars

\* ------------------------------------------------ confidences (SpecConf)
\* observations of one object and of relationships between the stored
\* entities, with fresh ids, constructed with a confidence at the ends or in
\* the middle of [0, 1] and added with merging enabled or disabled
ConfChoices == {Zero, Half, One}

AddObserved ==
  \E c \in ConfChoices, merge_if_exists \in BOOLEAN :
    AddEntity(Entity(Cardinality(DOMAIN entity_index) + 1, "object", <<"a">>, c),
              merge_if_exists)

AddObservedRel ==
  \E s \in DOMAIN entity_index, t \in DOMAIN entity_index,
     c \in ConfChoices, merge_if_exists \in BOOLEAN :
    AddRelationship(
      Relationship(Cardinality(DOMAIN relationship_index) + 1, "on", s, t, c),
      merge_if_exists)

NextConf ==
  /\ result.calls < MaxConfCalls
  /\ AddObserved \/ AddObservedRel

SpecConf == Init /\ [][NextConf]_vars

\* ------------------------------------------------- Entity.matches (SpecMatch)
\* the entity a is stored as entity 1; one call a.matches(b, threshold) is
\* made, with b and threshold drawn so that every criterion decides some
\* pair: types equal, different or unknown; names equal up to case or not;
\* a shared alias or none; embeddings missing, of unequal length, at 45 or
\* 90 degrees; tag sets empty or overlapping by 1/2 and by 2/3
MatchTypes == {"object", "space", "unknown"}
MatchSelf ==
  {[Entity(1, t, n, Half) EXCEPT !.aliases = al, !.embedding = emb, !.tags = tg] :
     t \in MatchTypes, n \in {<<"a">>, <<"B">>}, al \in {<<>>, << <<"c">> >>},
     emb \in {<<>>, <<1, 0>>, <<1>>}, tg \in {{}, {"x"}, {"x", "y"}}}
MatchOther ==
  {[Entity(2, t, n, Half) EXCEPT !.aliases = al, !.embedding = emb, !.tags = tg] :
     t \in MatchTypes, n \in {<<"A">>, <<"d">>}, al \in {<<>>, << <<"C">> >>},
     emb \in {<<>>, <<1, 1>>, <<0, 1>>}, tg \in {{}, {"x", "y"}, {"x", "y", "z"}}}
MatchThresholds == {<<7, 10>>, <<4, 5>>}

\* one call entity_index[1].matches(other, threshold)
Matches(other, threshold) ==
  /\ result' = [op |-> "matches", merge |-> FALSE,
                arg |-> <<other, threshold>>, seen |-> "new",
                ret |-> matches(entity_index[1], other, threshold),
                err |-> None, calls |-> result.calls + 1]
  /\ UNCHANGED <<entity_index, entity_order, entities_by_type,
                 entities_by_name, relationship_index, graph, now, callers>>

InitMatch ==
  /\ now = 0
  /\ callers = NoCallers
  /\ result = [op |-> "init", merge |-> FALSE, arg |-> NoId, seen |-> "new",
               ret |-> NoId, err |-> None, calls |-> 0]
  /\ \E a \in MatchSelf : Holds(InsertEntity(EmptyGraph, a))

NextMatch ==
  /\ result.op = "init"
  /\ \E other \in MatchOther, threshold \in MatchThresholds :
       Matches(other, threshold)

SpecMatch == InitMatch /\ [][NextMatch]_vars

\* ==================================================================== claims

\* C1: add_relationship whose source_id or target_id is not the id of a
\* stored entity fails with an error and is a no-op, for either value of
\* merge_if_exists: the relationship index (every record, with its
\* observation_count and confidence), the graph's edges (from which
\* get_relationships and the queries read the adjacency) and the entity store
\* are what they were before the call.
C1_MissingEndpointNoOp ==
  [][\A rel \in RelInputs, merge_if_exists \in BOOLEAN :
       (/\ \/ rel.source_id \notin DOMAIN entity_index
           \/ rel.target_id \notin DOMAIN entity_index
        /\ result'.arg = rel.id
        /\ AddRelationship(rel, merge_if_exists))
       => /\ result'.err = "ValueError"
          /\ relationship_index' = relationship_index
          /\ graph' = graph
          /\ entity_index' = entity_index
          /\ entity_order' = entity_order
          /\ entities_by_type' = entities_by_type
          /\ entities_by_name' = entities_by_name]_vars

\* a call with a missing endpoint has failed on a store that holds a merged
\* relationship
C1_Witness ==
  /\ result.op = "add_relationship"
  /\ result.err = "ValueError"
  /\ DOMAIN entity_index = RelNodes
  /\ \E k \in DOMAIN relationship_index :
       relationship_index[k].observation_count = 2

\* C2: from the empty store, k >= 1 merging-enabled add_entity calls with
\* fresh entities that share the case-insensitive name and the known type
\* leave exactly one stored entity, with the id of the first one inserted
\* and observation_count = k; every call returns that entity.
C2_SameNameCollapses ==
  result.calls >= 1 =>
    /\ DOMAIN entity_index = {1}
    /\ entity_index[1].observation_count = result.calls
    /\ result.ret = 1

\* two observations that differ in case have collapsed into one record
C2_Witness ==
  /\ result.calls = 2
  /\ result.arg = 2
  /\ DOMAIN entity_index = {1}
  /\ entity_index[1].observation_count = 2
  /\ entity_index[1].name = <<"A">>
  /\ entity_index[1].confidence = <<7, 20>>

C4_IndicesAgree ==
  /\ \A t \in EntityType :
       get_entities_by_type(Self, t) =
         {entity_index[i] : i \in {j \in DOMAIN entity_index :
                                     entity_index[j].entity_type = t}}
  /\ \A n \in StoreNames :
       get_entities_by_name(Self, n) =
         {entity_index[i] : i \in {j \in DOMAIN entity_index :
                                     lower(entity_index[j].name) = lower(n)}}
  /\ \A t \in DOMAIN entities_by_type : entities_by_type[t] \subseteq DOMAIN entity_index
  /\ \A n \in DOMAIN entities_by_name : entities_by_name[n] \subseteq DOMAIN entity_index

\* C5: export followed by import is lossless and idempotent: for every graph
\* g that add_entity and add_relationship calls reach, export_to_dict(g)
\* yields a dictionary from which import_from_dict builds a graph with the
\* ids, the counts and the per-id field values of g, and exporting and
\* importing that graph again changes nothing.
C5_ExportImportLossless ==
  /\ ~export_to_dict_raises(Self)
  /\ ~import_from_dict_raises(export_to_dict(Self))
  /\ LET h == import_from_dict(export_to_dict(Self))
     IN /\ DOMAIN h.entity_index = DOMAIN entity_index
        /\ DOMAIN h.relationship_index = DOMAIN relationship_index
        /\ h.entity_index = entity_index
        /\ h.relationship_index = relationship_index
        /\ ~export_to_dict_raises(h)
        /\ import_from_dict(export_to_dict(h)) = h

\* C6: merging an entity of confidence c0 with an incoming entity of
\* confidence c1 and weight w, all in [0,1], leaves confidence exactly
\* (1-w)*c0 + w*c1, here ((wd-wn)*c0 + wn*c1)/wd over a grid of rationals.
C6_BlendExact ==
  [][\A c1 \in GridValues, w \in GridValues :
       MergeObservation(Entity(2, "object", <<"A">>, c1), w) =>
         LET c0 == entity_index[1].confidence
         IN entity_index'[1].confidence =
              Rat((w[2] - w[1]) * c0[1] * c1[2] + w[1] * c1[1] * c0[2],
                  w[2] * c0[2] * c1[2])]_vars

\* a proper blend: weight 1/3 of incoming 1 into existing 0 gives 1/3
C6_Witness ==
  /\ result.op = "merge_observation"
  /\ result.calls = 1
  /\ result.arg = <<One, <<1, 3>>>>
  /\ entity_index[1].confidence = <<1, 3>>

\* C7: add_relationship with merging enabled, when the graph holds a
\* relationship with the same (source_id, target_id, relation_type), creates
\* no record: the stored ids and the edge count are unchanged, the call
\* returns a relationship held for that triple, that relationship's
\* observation_count grows by 1 and its confidence c becomes
\* min(1, c + 0.3*(1-c)) = min(1, (7c + 3)/10), and every other relationship
\* (on an edge or in the id index) is unchanged.
C7_MergeIntoExisting ==
  [][\A rel \in RelInputs :
       (/\ \E q \in DOMAIN graph.edges :
             /\ graph.edges[q].u = rel.source_id
             /\ graph.edges[q].v = rel.target_id
             /\ graph.edges[q].relationship.relation_type = rel.relation_type
        /\ result'.arg = rel.id
        /\ AddRelationship(rel, TRUE))
       => /\ result'.err = None
          /\ DOMAIN relationship_index' = DOMAIN relationship_index
          /\ Len(graph'.edges) = Len(graph.edges)
          /\ \E p \in DOMAIN graph.edges :
               LET old == graph.edges[p].relationship
                   new == graph'.edges[p].relationship
                   c == old.confidence
               IN /\ old.source_id = rel.source_id
                  /\ old.target_id = rel.target_id
                  /\ old.relation_type = rel.relation_type
                  /\ result'.ret = old.id
                  /\ new.observation_count = old.observation_count + 1
                  /\ new.confidence =
                       (IF 7 * c[1] + 3 * c[2] >= 10 * c[2] THEN <<1, 1>>
                        ELSE Rat(7 * c[1] + 3 * c[2], 10 * c[2]))
                  /\ new = [old EXCEPT !.observation_count = new.observation_count,
                                       !.confidence = new.confidence,
                                       !.last_observed = new.last_observed]
                  /\ \A q \in DOMAIN graph.edges \ {p} : graph'.edges[q] = graph.edges[q]
                  /\ \A k \in DOMAIN relationship_index :
                       \/ relationship_index'[k] = relationship_index[k]
                       \/ /\ relationship_index[k] = old
                          /\ relationship_index'[k] = new]_vars

\* a second observation of a stored triple, under a new id, has been merged
\* into the stored record: one record, observed twice, confidence 13/20
C7_Witness ==
  /\ result.op = "add_relationship"
  /\ result.merge
  /\ result.arg = 2
  /\ result.ret = 1
  /\ DOMAIN relationship_index = {1}
  /\ relationship_index[1].observation_count = 2
  /\ relationship_index[1].confidence = <<13, 20>>
  /\ Len(graph.edges) = 1

\* C8: with max_hops = 1, query_spatial(A, f) returns exactly one
\* (target entity, relationship) pair for each outgoing edge of A whose type
\* is one of the eleven spatial types and equals f when f is given, and
\* nothing else: no incoming edge, no non-spatial edge.
C8_OneHopExact ==
  \A A \in DOMAIN entity_index, f \in {None} \cup QueryTypes \cup {"near"} :
    LET eleven == {"on", "in", "near", "next_to", "above", "below", "left_of",
                   "right_of", "in_front_of", "behind", "attached_to"}
        wanted == {p \in DOMAIN graph.edges :
                     /\ graph.edges[p].u = A
                     /\ graph.edges[p].relationship.relation_type \in eleven
                     /\ f # None => graph.edges[p].relationship.relation_type = f}
        Pair(p) == <<entity_index[graph.edges[p].v], graph.edges[p].relationship>>
    IN /\ ~query_spatial_raises(Self, A)
       /\ query_spatial(Self, A, f, 1) # {}
       /\ \A res \in query_spatial(Self, A, f, 1) :
            /\ Len(res) = Cardinality(wanted)
            /\ \A p \in wanted : \E i \in DOMAIN res : res[i] = Pair(p)
            /\ \A i \in DOMAIN res : \E p \in wanted : res[i] = Pair(p)

\* entity 1 has a single outgoing ON edge, to entity 2, next to an incoming
\* edge, and the one-hop query returns exactly that pair
C8_Witness ==
  /\ Len(graph.edges) = 2
  /\ graph.edges[1].u = 1 /\ graph.edges[1].v = 2
  /\ graph.edges[1].relationship.relation_type = "on"
  /\ graph.edges[2].u = 3 /\ graph.edges[2].v = 1
  /\ query_spatial(Self, 1, None, 1) =
       {<< <<entity_index[2], graph.edges[1].relationship>> >>}

\* C9: query_spatial(A, max_hops = N) with N >= 2 reaches the entities at
\* distance 2..N: in a graph all of whose edges are spatial, queried without
\* a type filter, every entity T whose distance d from A over outgoing edges
\* satisfies 2 <= d <= N appears in the result as (T, r) for an edge r into T
\* (on the chain A -ON-> B -ON-> C, max_hops = 2 yields C).
C9_ReachesDistanceN ==
  \A A \in DOMAIN entity_index, N \in 2..MaxHops :
    (\A p \in DOMAIN graph.edges :
       graph.edges[p].relationship.relation_type \in {"on", "in", "above"})
    => LET levels == BfsLevels(Self, QueryTypes, <<{A}>>, {A})
       IN \A d \in DOMAIN levels : \A T \in levels[d] :
            (2 <= d - 1 /\ d - 1 <= N)
            => \A res \in query_spatial(Self, A, None, N) :
                 \E i \in DOMAIN res :
                   /\ res[i][1] = entity_index[T]
                   /\ res[i][2].target_id = T

C11_ContextRecord ==
  \A e \in DOMAIN entity_index, radius \in 1..MaxHops :
    LET Out(t) == {p \in DOMAIN graph.edges :
                     /\ graph.edges[p].u = e
                     /\ graph.edges[p].relationship.relation_type = t}
        InIn == {p \in DOMAIN graph.edges :
                   /\ graph.edges[p].v = e
                   /\ graph.edges[p].relationship.relation_type = "in"}
        order == OutEdgePositions(Self, e)
        Times(list, x) == Cardinality({i \in DOMAIN list : list[i] = x})
    IN /\ ~get_context_raises(Self, e)
       /\ get_context(Self, e, radius) # {}
       /\ {ctx.spatial_neighbors : ctx \in get_context(Self, e, radius)}
            = query_spatial(Self, e, None, radius)
       /\ \A ctx \in get_context(Self, e, radius) :
            /\ ctx.entity = entity_index[e]
            /\ Out("in") = {} <=> ctx.container = {}
            /\ \A i \in DOMAIN order :
                 (/\ order[i] \in Out("in")
                  /\ \A j \in DOMAIN order : j > i => order[j] \notin Out("in"))
                 => ctx.container = {entity_index[graph.edges[order[i]].v]}
            /\ Len(ctx.nearby) = Cardinality(Out("near"))
            /\ \A x \in DOMAIN entity_index :
                 Times(ctx.nearby, entity_index[x])
                   = Cardinality({p \in Out("near") : graph.edges[p].v = x})
            /\ Len(ctx.contents) = Cardinality(InIn)
            /\ \A x \in DOMAIN entity_index :
                 Times(ctx.contents, entity_index[x])
                   = Cardinality({p \in InIn : graph.edges[p].u = x})

\* Hammer (1) -IN-> Toolbox (2) -ON-> Workbench (3): the container of the
\* hammer is the toolbox and the contents of the toolbox are the hammer
C11_Witness ==
  /\ Len(graph.edges) = 2
  /\ graph.edges[1].u = 1 /\ graph.edges[1].v = 2
  /\ graph.edges[1].relationship.relation_type = "in"
  /\ graph.edges[2].u = 2 /\ graph.edges[2].v = 3
  /\ graph.edges[2].relationship.relation_type = "on"
  /\ \A ctx \in get_context(Self, 1, 2) : ctx.container = {entity_index[2]}
  /\ \A ctx \in get_context(Self, 2, 2) :
       ctx.contents = <<entity_index[1]>> /\ ctx.container = {}

\* C12: for stored entity ids, get_relationships(source, target, type)
\* returns exactly the stored relationship records r, each once, with
\* r.source_id = source when source is given, r.target_id = target when
\* target is given and r.relation_type = type when type is given; without
\* arguments it returns every stored relationship.
C12_GetRelationshipsExact ==
  \A source \in {NoId} \cup DOMAIN entity_index,
     target \in {NoId} \cup DOMAIN entity_index,
     type \in {None} \cup RelationType :
    LET res == get_relationships(Self, source, target, type)
        wanted == {k \in DOMAIN relationship_index :
                     /\ source # NoId => relationship_index[k].source_id = source
                     /\ target # NoId => relationship_index[k].target_id = target
                     /\ type # None => relationship_index[k].relation_type = type}
    IN /\ ~get_relationships_raises(Self, source, target)
       /\ Len(res) = Cardinality(wanted)
       /\ \A k \in wanted : \E i \in DOMAIN res : res[i] = relationship_index[k]
       /\ \A i \in DOMAIN res :
            res[i].id \in wanted /\ res[i] = relationship_index[res[i].id]

\* C13: get_entities_by_name(q, fuzzy=True) returns exactly the stored
\* entities e for which, comparing case-insensitively, q is a substring of
\* e.name, or e.name is a substring of q, or q is a substring of an alias
\* of e.
C13_FuzzyThreeWay ==
  \A q \in NameChoices \cup {<<"B", "c">>, <<"c">>} :
    LET res == get_entities_by_name_fuzzy(Self, q)
        wanted ==
          {eid \in DOMAIN entity_index :
             \/ Substring(lower(q), lower(entity_index[eid].name))
             \/ Substring(lower(entity_index[eid].name), lower(q))
             \/ \E alias \in Range(entity_index[eid].aliases) :
                  Substring(lower(q), lower(alias))}
    IN {res[i].id : i \in DOMAIN res} = wanted

\* C14: add_entity with merging enabled finds its merge candidates by exact
\* or fuzzy name match: an incoming entity without an embedding whose
\* lower-cased name equals an alias, but not the name, of a stored entity of
\* the same type is merged into a stored entity, not inserted as a new
\* record.
C14_AliasNameMerges ==
  [][\A entity \in NameEntities(result.calls + 1) :
       (/\ \E eid \in DOMAIN entity_index :
             /\ entity_index[eid].entity_type = entity.entity_type
             /\ lower(entity.name) # lower(entity_index[eid].name)
             /\ \E alias \in Range(entity_index[eid].aliases) :
                  lower(alias) = lower(entity.name)
        /\ AddEntity(entity, TRUE))
       => /\ DOMAIN entity_index' = DOMAIN entity_index
          /\ result'.ret \in DOMAIN entity_index]_vars

\* C15: no query raises for a not-found condition: for an id that is not
\* stored, get_relationships(source_id = x), get_relationships(target_id = x),
\* query_spatial and get_context return without raising, and so does
\* find_path(s, t) when s or t is not stored, in every reachable state
\* including the empty store.
C15_QueriesNeverRaise ==
  \A x \in QueryNodes \ DOMAIN entity_index :
    /\ ~get_relationships_raises(Self, x, NoId)
    /\ ~get_relationships_raises(Self, NoId, x)
    /\ ~query_spatial_raises(Self, x)
    /\ ~get_context_raises(Self, x)
    /\ \A y \in QueryNodes :
         ~find_path_raises(Self, x, y) /\ ~find_path_raises(Self, y, x)

C17_RecordsOnlyAdvance ==
  [][\A eid \in DOMAIN entity_index :
       /\ eid \in DOMAIN entity_index'
       /\ entity_index'[eid].observation_count >= entity_index[eid].observation_count
       /\ entity_index'[eid].last_observed >= entity_index[eid].last_observed
       /\ entity_index'[eid].first_observed = entity_index[eid].first_observed]_vars

\* C18: in every state reached through add_entity and add_relationship,
\* with merging enabled or disabled, from records constructed with a
\* confidence in [0, 1], every stored entity and every stored relationship
\* has a confidence in [0, 1], and its type is a member of the closed set of
\* entity types resp. relation types.
C18_ConfidenceAndTypeInRange ==
  LET InUnit(c) == c[2] > 0 /\ 0 <= c[1] /\ c[1] <= c[2]
  IN /\ \A eid \in DOMAIN entity_index :
          /\ InUnit(entity_index[eid].confidence)
          /\ entity_index[eid].entity_type \in EntityType
     /\ \A k \in DOMAIN relationship_index :
          /\ InUnit(relationship_index[k].confidence)
          /\ relationship_index[k].relation_type \in RelationType
     /\ \A p \in DOMAIN graph.edges :
          /\ InUnit(graph.edges[p].relationship.confidence)
          /\ graph.edges[p].relationship.relation_type \in RelationType

\* an entity and a relationship have both been merged into, and the
\* relationship's confidence has reached 1
C18_Witness ==
  /\ \E eid \in DOMAIN entity_index : entity_index[eid].observation_count >= 2
  /\ \E k \in DOMAIN relationship_index :
       /\ relationship_index[k].observation_count >= 2
       /\ relationship_index[k].confidence = One

\* C19: a.matches(b, threshold) is the reference decision chain: false when
\* both types are known and differ; otherwise true if the names are equal
\* case-insensitively, or {a.name} + a.aliases and {b.name} + b.aliases
\* (lower-cased) intersect, or both have embeddings of equal length with
\* cosine similarity > threshold, or both tag sets are non-empty and
\* |tags_a & tags_b| / |tags_a | tags_b| > 0.5 strictly; otherwise false.
C19_MatchesIsDecisionChain ==
  result.op = "matches" =>
    LET a == entity_index[1]
        b == result.arg[1]
        threshold == result.arg[2]
        Names(e) == {lower(e.name)} \cup {lower(e.aliases[i]) : i \in DOMAIN e.aliases}
        Sum2(f, n) == IF n = 1 THEN f[1] ELSE f[1] + f[2]
        ab == Sum2([i \in DOMAIN a.embedding |-> a.embedding[i] * b.embedding[i]],
                   Len(a.embedding))
        aa == Sum2([i \in DOMAIN a.embedding |-> a.embedding[i] * a.embedding[i]],
                   Len(a.embedding))
        bb == Sum2([i \in DOMAIN b.embedding |-> b.embedding[i] * b.embedding[i]],
                   Len(b.embedding))
        \* ab / sqrt(aa * bb) > tn / td, for positive tn / td
        similar == /\ ab > 0
                   /\ ab * ab * threshold[2] * threshold[2]
                        > threshold[1] * threshold[1] * aa * bb
        reference ==
          IF /\ a.entity_type # "unknown"
             /\ b.entity_type # "unknown"
             /\ a.entity_type # b.entity_type
          THEN FALSE
          ELSE \/ lower(a.name) = lower(b.name)
               \/ Names(a) \cap Names(b) # {}
               \/ /\ Len(a.embedding) > 0
                  /\ Len(a.embedding) = Len(b.embedding)
                  /\ similar
               \/ /\ a.tags # {} /\ b.tags # {}
                  /\ 2 * Cardinality(a.tags \cap b.tags)
                       > Cardinality(a.tags \cup b.tags)
    IN result.ret = reference

\* the only thing a and b share is one of two tags, an overlap of exactly
\* one half: no match
C19_Witness ==
  /\ result.op = "matches"
  /\ entity_index[1].tags = {"x"}
  /\ result.arg[1].tags = {"x", "y"}
  /\ entity_index[1].entity_type = result.arg[1].entity_type
  /\ entity_index[1].name = <<"a">> /\ result.arg[1].name = <<"d">>
  /\ entity_index[1].aliases = <<>>
  /\ entity_index[1].embedding = <<>>
  /\ result.ret = FALSE

NoProperties == [k \in {} |-> None]

FuseCollections ==
  { [tags |-> {}, aliases |-> <<>>, source_devices |-> {},
     properties |-> NoProperties],
    [tags |-> {"red", "metal"}, aliases |-> << <<"b">> >>,
     source_devices |-> {"d1"},
     properties |-> [k \in {"color"} |-> "red"]],
    [tags |-> {"red", "heavy"}, aliases |-> << <<"b">>, <<"c">> >>,
     source_devices |-> {"d1", "d2"},
     properties |-> [k \in {"color", "size"} |->
                       IF k = "color" THEN "blue" ELSE "big"]] }

FuseConfidences == {Zero, Half, One}

FuseWeights == {Zero, DefaultWeight, Half, One}

FuseEntity(id, c, coll, category, function) ==
  [Entity(id, "object", <<"A">>, c) EXCEPT
     !.tags = coll.tags, !.aliases = coll.aliases,
     !.source_devices = coll.source_devices,
     !.properties = coll.properties,
     !.category = category, !.function = function]

FuseSelf ==
  { FuseEntity(1, c, coll, category, function) :
      c \in FuseConfidences, coll \in FuseCollections,
      category \in {None, "tool"}, function \in {None, "cut"} }

FuseOther ==
  { FuseEntity(2, c, coll, category, function) :
      c \in FuseConfidences, coll \in FuseCollections,
      category \in {None, "", "box"}, function \in {None, "", "hold"} }

\* existing.merge_observation(incoming, weight) on the stored entity 1; the
\* record of the call keeps the receiver as it was, the argument and the weight
FuseObservation(other, weight) ==
  /\ entity_index' = [entity_index EXCEPT ![1] = merge_observation(@, other, weight)]
  /\ result' = [op |-> "merge_observation", merge |-> TRUE,
                arg |-> <<entity_index[1], other, weight>>, seen |-> "new",
                ret |-> 1, err |-> None, calls |-> result.calls + 1]
  /\ UNCHANGED <<entity_order, entities_by_type, entities_by_name,
                 relationship_index, graph, now, callers>>

InitFuse ==
  /\ now = 0
  /\ callers = NoCallers
  /\ result = [op |-> "init", merge |-> FALSE, arg |-> NoId, seen |-> "new",
               ret |-> NoId, err |-> None, calls |-> 0]
  /\ \E self \in FuseSelf : Holds(InsertEntity(EmptyGraph, self))

NextFuse ==
  /\ result.op = "init"
  /\ \E other \in FuseOther, weight \in FuseWeights :
       FuseObservation(other, weight)

SpecFuse == InitFuse /\ [][NextFuse]_vars

\* C21: after existing.merge_observation(incoming) the tags are the union of
\* both tag sets, the aliases are the old list followed by the incoming list
\* (duplicates kept), the source devices are the union of both device sets,
\* the properties are the old mapping overridden key by key by the incoming
\* one, and observation_count is the old count plus 1
C21_CollectionsFused ==
  result.op = "merge_observation" =>
    LET old == result.arg[1]
        incoming == result.arg[2]
        new == entity_index[1]
    IN /\ new.tags = old.tags \cup incoming.tags
       /\ new.aliases = old.aliases \o incoming.aliases
       /\ Len(new.aliases) = Len(old.aliases) + Len(incoming.aliases)
       /\ new.source_devices = old.source_devices \cup incoming.source_devices
       /\ DOMAIN new.properties
            = DOMAIN old.properties \cup DOMAIN incoming.properties
       /\ \A k \in DOMAIN new.properties :
            new.properties[k] = IF k \in DOMAIN incoming.properties
                                THEN incoming.properties[k]
                                ELSE old.properties[k]
       /\ new.observation_count = old.observation_count + 1

\* a merge that repeats an alias and overrides a property
C21_Witness ==
  /\ result.op = "merge_observation"
  /\ result.arg[1].aliases = << <<"b">> >>
  /\ entity_index[1].aliases = << <<"b">>, <<"b">>, <<"c">> >>
  /\ result.arg[1].properties["color"] = "red"
  /\ entity_index[1].properties = result.arg[2].properties
  /\ entity_index[1].tags = {"red", "metal", "heavy"}
  /\ entity_index[1].source_devices = {"d1", "d2"}
  /\ entity_index[1].observation_count = 2

\* C22: for every weight in [0,1], a non-empty incoming category (function)
\* replaces the stored one exactly when the incoming confidence exceeds the
\* stored confidence as it was before the blend; otherwise both are unchanged
C22_ReplacedIffMoreConfident ==
  result.op = "merge_observation" =>
    LET old == result.arg[1]
        incoming == result.arg[2]
        new == entity_index[1]
        more == RatLess(old.confidence, incoming.confidence)
    IN /\ new.category = IF more /\ incoming.category \notin {None, ""}
                         THEN incoming.category ELSE old.category
       /\ new.function = IF more /\ incoming.function \notin {None, ""}
                         THEN incoming.function ELSE old.function

\* ------------------- repeated merges into one relationship (SpecAccum)
MaxAccum == 3

AccumConfidences == {Zero, <<1, 5>>, Half, One}

AccumWeights == {Zero, DefaultWeight, Half, One}

\* stored.merge_observation(weight) on the stored relationship 1, held by
\* the id index and by its edge; the record of the calls keeps the
\* relationship as it was constructed and the weights applied so far
RelMergeObservation(weight) ==
  LET merged == rel_merge_observation(relationship_index[1], weight)
  IN /\ relationship_index' = [relationship_index EXCEPT ![1] = merged]
     /\ graph' = [graph EXCEPT !.edges[1].relationship = merged]
     /\ result' = [result EXCEPT !.op = "merge_observation",
                                 !.arg = Append(@, weight),
                                 !.calls = @ + 1]
     /\ UNCHANGED <<entity_index, entity_order, entities_by_type,
                    entities_by_name, now, callers>>

InitAccum ==
  /\ now = 0
  /\ callers = NoCallers
  /\ \E c0 \in AccumConfidences :
       LET rel == Relationship(1, "on", 1, 2, c0)
       IN /\ result = [op |-> "init", merge |-> TRUE, arg |-> <<>>,
                       seen |-> rel, ret |-> NoId, err |-> None, calls |-> 0]
          /\ Holds(InsertRelationship(
                     InsertEntity(InsertEntity(EmptyGraph, Node(1)), Node(2)),
                     rel))

NextAccum ==
  /\ result.calls < MaxAccum
  /\ \E weight \in AccumWeights : RelMergeObservation(weight)

SpecAccum == InitAccum /\ [][NextAccum]_vars

RECURSIVE RatPow(_, _)
RatPow(p, n) == IF n = 0 THEN One ELSE RatMul(p, RatPow(p, n - 1))

\* C23: over any sequence of merges into a stored relationship the
\* confidence never decreases and never exceeds 1, and after n merges that
\* all used the default weight it equals 1 - (1 - c0) * 0.7^n
C23_ConfidenceAccumulates ==
  [][LET c0 == result.seen.confidence
         old == relationship_index[1].confidence
         new == relationship_index'[1].confidence
         n == Len(result'.arg)
     IN /\ RatLeq(old, new)
        /\ RatLeq(new, One)
        /\ graph'.edges[1].relationship.confidence = new
        /\ (\A i \in 1..n : result'.arg[i] = DefaultWeight) =>
             new = RatSub(One, RatMul(RatSub(One, c0),
                                      RatPow(<<7, 10>>, n)))]_vars

\* three default-weight merges from confidence 1/2: 1 - 0.5 * 0.343
C23_Witness ==
  /\ result.arg = <<DefaultWeight, DefaultWeight, DefaultWeight>>
  /\ result.seen.confidence = Half
  /\ relationship_index[1].confidence = <<1657, 2000>>
  /\ relationship_index[1].observation_count = 4

\* ------------------- edges meeting in one target (SpecFan)
\* as SpecQuery, with two spatial types and room for a chain that ends in
\* two parallel edges
MaxFanEdges == 3

FanTypes == {"on", "near"}

AddFanEdge ==
  /\ Len(graph.edges) < MaxFanEdges
  /\ \E s \in DOMAIN entity_index, t \in DOMAIN entity_index, rt \in FanTypes :
       AddRelationship(Relationship(Len(graph.edges) + 1, rt, s, t, Half), FALSE)

NextFan ==
  \/ AddNextNode(QueryNodes)
  \/ AddFanEdge

SpecFan == Init /\ [][NextFan]_vars

\* visited and current_level at the start of each iteration of the loop
\* "for _ in range(max_hops - 1)" of query_spatial (lines 206-222); both are
\* sets, so they do not depend on the iteration order
RECURSIVE ExpansionLevels(_, _, _, _)
ExpansionLevels(g, iterations, visited, current_level) ==
  IF iterations = 0 THEN <<>>
  ELSE LET targets ==
             UNION {{rel.target_id :
                       rel \in Range(get_relationships(g, eid, NoId, None))} :
                    eid \in current_level}
           next_level == targets \ visited
       IN <<[visited |-> visited, current_level |-> current_level]>>
          \o ExpansionLevels(g, iterations - 1, visited \cup next_level,
                             next_level)

\* C24: at any expansion level of query_spatial, two distinct spatial edges
\* that pass the type filter and lead from frontier entities to the same
\* target, not visited before that level, both appear in the result as
\* (target, edge) pairs
C24_BothFanInPairsAppear ==
  \A a \in DOMAIN entity_index, rt \in {None} \cup FanTypes, h \in 2..MaxHops :
    LET levels == ExpansionLevels(Self, h - 1, {a}, {a})
    IN \A L \in DOMAIN levels : \A p, q \in DOMAIN graph.edges :
         ( /\ p # q
           /\ graph.edges[p].u \in levels[L].current_level
           /\ graph.edges[q].u \in levels[L].current_level
           /\ graph.edges[p].v = graph.edges[q].v
           /\ graph.edges[p].v \notin levels[L].visited
           /\ Contributes(Self, graph.edges[p].relationship, rt)
           /\ Contributes(Self, graph.edges[q].relationship, rt) )
         => \A res \in query_spatial(Self, a, rt, h) :
              /\ \E i \in DOMAIN res :
                   res[i] = ResultPair(Self, graph.edges[p].relationship)
              /\ \E j \in DOMAIN res :
                   res[j] = ResultPair(Self, graph.edges[q].relationship)

\* ------------------- several candidates for one merge (SpecAmbig)
\* entities with fresh ids 1, 2, ..., whose names are equal up to case, of
\* two known types, with or without a tag, added with merging enabled or
\* disabled: merging disabled stores several records of one name
MaxAmbigCalls == 3

AmbigEntities(id) ==
  {[Entity(id, t, n, c) EXCEPT !.tags = tg] :
     t \in {"object", "space"}, n \in {<<"a">>, <<"A">>},
     c \in {Half}, tg \in {{}, {"x"}}}

AddAmbig ==
  /\ result.calls < MaxAmbigCalls
  /\ \E entity \in AmbigEntities(result.calls + 1), merge_if_exists \in BOOLEAN :
       AddEntity(entity, merge_if_exists)

SpecAmbig == Init /\ [][AddAmbig]_vars

\* the stored candidates of the lookup (same lower-cased name) that match
MatchingCandidates(entity) ==
  {x \in DOMAIN entity_index :
     /\ lower(entity_index[x].name) = lower(entity.name)
     /\ matches(entity_index[x], entity, DefaultThreshold)}

Callers == {1, 2}

RaceNames == {<<"a">>, <<"A">>}

RaceEntity(c, t, n, conf) == Entity(c, t, n, conf)

InitRace ==
  /\ now = 0
  /\ result = [op |-> "init", merge |-> TRUE, arg |-> NoId, seen |-> "new",
               ret |-> NoId, err |-> None, calls |-> 0]
  /\ Holds(EmptyGraph)
  /\ \E mutex \in BOOLEAN, t \in {"object", "space"},
        n \in [Callers -> RaceNames], conf \in [Callers -> {Half, One}] :
       callers = [mutex |-> mutex, holder |-> NoId,
                  at |-> [c \in Callers |->
                            [pc |-> "call",
                             entity |-> RaceEntity(c, t, n[c], conf[c]),
                             existing |-> {}]]]

\* line 44: existing = self._find_matching_entity(entity)
Lookup(c) ==
  /\ callers.at[c].pc = "call"
  /\ callers.mutex => callers.holder = NoId
  /\ \E found \in _find_matching_entity(Self, callers.at[c].entity) :
       callers' = [callers EXCEPT !.at[c].pc = "found",
                                  !.at[c].existing = found,
                                  !.holder = IF callers.mutex THEN c ELSE @]
  /\ UNCHANGED <<entity_index, entity_order, entities_by_type,
                 entities_by_name, relationship_index, graph, now, result>>

\* lines 45-57: the merge into existing, or the insert, and the return
Complete(c) ==
  LET entity == callers.at[c].entity
      found == callers.at[c].existing
  IN /\ callers.at[c].pc = "found"
     /\ Becomes(add_entity(Self, entity, TRUE, found))
     /\ result' = Returned("add_entity", TRUE, entity.id,
                           Seen(entity_index, entity),
                           add_entity_returns(entity, TRUE, found))
     /\ callers' = [callers EXCEPT !.at[c].pc = "done", !.holder = NoId]
     /\ UNCHANGED now

NextRace ==
  \E c \in Callers : Lookup(c) \/ Complete(c)

SpecRace == InitRace /\ [][NextRace]_vars

BothLookedUp == \A c \in Callers : callers.at[c].pc = "found"

BothDone == \A c \in Callers : callers.at[c].pc = "done"

\* C26: two callers add a same-name, same-known-type entity to a store
\* holding no match.  When every call runs under external mutual exclusion,
\* every interleaving ends with one stored record whose observation_count
\* is 2; when the calls are not serialized and both have made the lookup
\* before either inserts, the store ends with two separate records
C26_SerializedOneRecordRacedTwo ==
  /\ [](callers.mutex /\ BothDone
          => /\ Cardinality(DOMAIN entity_index) = 1
             /\ \A x \in DOMAIN entity_index :
                  entity_index[x].observation_count = 2)
  /\ [](~callers.mutex /\ BothLookedUp
          => [](BothDone
                  => /\ DOMAIN entity_index = Callers
                     /\ \A x \in DOMAIN entity_index :
                          /\ entity_index[x] = callers.at[x].entity
                          /\ entity_index[x].observation_count = 1))

\* without the lock both callers found nothing and both inserted
C26_Witness ==
  /\ ~callers.mutex
  /\ BothDone
  /\ \A c \in Callers : callers.at[c].existing = {}
  /\ DOMAIN entity_index = {1, 2}
  /\ lower(entity_index[1].name) = lower(entity_index[2].name)
  /\ entity_index[1].entity_type = entity_index[2].entity_type
  /\ entities_by_name[<<"a">>] = {1, 2}

\* ------------------- one observation is ingested (SpecIngest)
\* the loop body of the photo ingestion example: the entities of one
\* observation, with fresh ids 1..MaxIngestEntities, are added with merging
\* enabled; then its relationships, which refer to those ids, are added
MaxIngestEntities == 3
MaxIngestRels == 2

IngestIds == 1..MaxIngestEntities

IngestEntities(id) ==
  {Entity(id, "object", n, Half) : n \in {<<"a">>, <<"A">>, <<"b">>}}

IngestRels(id) ==
  {Relationship(id, "on", s, t, Half) : s \in IngestIds, t \in IngestIds}

AddIngestEntity ==
  /\ result.calls < MaxIngestEntities
  /\ \E entity \in IngestEntities(result.calls + 1) : AddEntity(entity, TRUE)

AddIngestRel ==
  /\ result.calls >= MaxIngestEntities
  /\ result.calls < MaxIngestEntities + MaxIngestRels
  /\ \E rel \in IngestRels(result.calls + 1) : AddRelationship(rel, TRUE)

NextIngest == AddIngestEntity \/ AddIngestRel

SpecIngest == Init /\ [][NextIngest]_vars

\* the ids of the observation's entities that were merged into a stored
\* entity of another id, once all of them have been added
MergedAway ==
  IF result.calls >= MaxIngestEntities
  THEN IngestIds \ DOMAIN entity_index ELSE {}

\* C27: when add_entity with merging enabled merges a fresh entity e into a
\* stored entity of another id, e.id does not become a known id
\* (get_entity(e.id) finds nothing), and a later add_relationship whose
\* source_id or target_id is e.id raises the reference error and attaches
\* nothing
C27_MergedIdStaysUnknown ==
  [][/\ \A e \in IngestEntities(result.calls + 1) :
          ( /\ result.calls < MaxIngestEntities
            /\ result'.op = "add_entity"
            /\ result'.ret # e.id
            /\ AddEntity(e, TRUE) )
          => /\ e.id \notin DOMAIN entity_index'
             /\ e.id \notin graph'.nodes
             /\ get_entity(Self', e.id) = {}
     /\ \A rel \in IngestRels(result.calls + 1) :
          ( /\ \/ rel.source_id \in MergedAway
               \/ rel.target_id \in MergedAway
            /\ result'.op = "add_relationship"
            /\ AddRelationship(rel, TRUE) )
          => /\ result'.err = "ValueError"
             /\ graph' = graph
             /\ relationship_index' = relationship_index]_vars

\* the third entity of the observation was merged into the first, and a
\* relationship of the observation that names it has been rejected
C27_Witness ==
  /\ result.op = "add_relationship"
  /\ result.err = "ValueError"
  /\ {1, 2} \subseteq DOMAIN entity_index
  /\ entity_index[1].observation_count = 2
  /\ 3 \in MergedAway
  /\ graph.edges = <<>>

\* C28: the relationship id index and the adjacency describe the same
\* relationships after any sequence of add_relationship calls: the records
\* of get_relationships() are exactly the records of
\* get_relationships(source_id=s) over the stored s, and of
\* get_relationships(target_id=t) over the stored t, each exactly once, and
\* total_relationships is the number of edges of the graph
C28_IndexMatchesAdjacency ==
  LET all == get_relationships(Self, NoId, NoId, None)
      out(s) == get_relationships(Self, s, NoId, None)
      in(t) == get_relationships(Self, NoId, t, None)
      OutAt(r) == {<<s, i>> \in (DOMAIN entity_index) \X (DOMAIN graph.edges) :
                     i \in DOMAIN out(s) /\ out(s)[i] = r}
      InAt(r) == {<<t, i>> \in (DOMAIN entity_index) \X (DOMAIN graph.edges) :
                    i \in DOMAIN in(t) /\ in(t)[i] = r}
  IN /\ \A i \in DOMAIN all :
          /\ Cardinality(OutAt(all[i])) = 1
          /\ Cardinality(InAt(all[i])) = 1
          /\ Cardinality({j \in DOMAIN all : all[j] = all[i]}) = 1
     /\ \A s \in DOMAIN entity_index :
          /\ \A i \in DOMAIN out(s) : out(s)[i] \in Range(all)
          /\ \A i \in DOMAIN in(s) : in(s)[i] \in Range(all)
     /\ total_relationships(Self) = Len(graph.edges)

\* C29: query_spatial never reports the same (entity, relationship) pair
\* twice: for every stored start entity, type filter and max_hops >= 1, each
\* relationship occurs at most once in the returned list
C29_NoPairTwice ==
  \A a \in DOMAIN entity_index, rt \in {None} \cup QueryTypes,
     h \in 1..MaxHops :
    \A res \in query_spatial(Self, a, rt, h) :
      \A i, j \in DOMAIN res :
        (res[i] = res[j] \/ res[i][2].id = res[j][2].id) => i = j

\* ------------------- two observations in either order (SpecOrder)
\* two entities with fresh ids 1 and 2, of a known or the unknown type, with
\* equal or different names, with or without an alias, an embedding and a
\* tag, are added with merging enabled
OrderEntities(id) ==
  {[Entity(id, t, n, Half) EXCEPT !.aliases = al, !.embedding = emb, !.tags = tg] :
     t \in {"object", "unknown"}, n \in {<<"a">>, <<"B">>},
     al \in {<<>>, << <<"a">> >>}, emb \in {<<>>, <<1, 0>>},
     tg \in {{}, {"x"}}}

AddOrdered ==
  /\ result.calls < 2
  /\ \E entity \in OrderEntities(result.calls + 1) : AddEntity(entity, TRUE)

SpecOrder == Init /\ [][AddOrdered]_vars

\* add_entity(second) with merging enabled on a store that holds only first
\* merges second into first
MergesInto(first, second) ==
  _find_matching_entity(InsertEntity(EmptyGraph, first), second) # {{}}

\* C30: matches is reflexive and symmetric for any threshold, and so whether
\* an incoming entity merges into a stored one does not depend on which of
\* the two was observed first
C30_MatchSymmetricMergeOrderFree ==
  [][\A b \in OrderEntities(2) :
       ( /\ result.calls = 1
         /\ result'.arg = b.id
         /\ AddEntity(b, TRUE) )
       => LET a == entity_index[1]
          IN /\ \A threshold \in MatchThresholds :
                  /\ matches(a, a, threshold)
                  /\ matches(b, b, threshold)
                  /\ matches(a, b, threshold) = matches(b, a, threshold)
             /\ (result'.ret = a.id) = MergesInto(a, b)
             /\ MergesInto(a, b) = MergesInto(b, a)]_vars

====
